---- MODULE Spec2Model ----
(***************************************************************************)
(* Model of src/monitor.py: TerraformingMarsMonitor.                       *)
(*                                                                         *)
(* Several threads share one monitor object:                                *)
(*   - the poll loop of run(): startup broadcast, then                     *)
(*     get_game_state -> notify_players -> sleep, for ever;                *)
(*   - the webhook server, which calls handle_incoming_message for each    *)
(*     inbound message, every request in a thread of its own.              *)
(* The shared attributes are game_id and current_state; no lock guards     *)
(* them, so every read and write of them is a step of its own.             *)
(*                                                                         *)
(* Python values: None is the string "None" where the other values are     *)
(* strings, and the record NoState where the other values are snapshots.   *)
(* A text is a sequence of one-character strings.                          *)
(***************************************************************************)
EXTENDS Integers, Sequences, FiniteSets, TLC

None == "None"

\* a slip: only None counts as no value, the empty string passes
FalsyOnlyNone(x) == x = None

\* not x, for x a str or None (os.environ.get gives None or a str)
Falsy(x) == x \in {None, ""}

Truthy(x) == ~Falsy(x)

----------------------------------------------------------------------------
(* Texts: str.lower, str.startswith, str.split(' '), str.strip             *)
(* The characters of a text are the ASCII characters and the white space   *)
(* outside ASCII; a character that a string of this language cannot hold   *)
(* is written as its code point ("U+000B").                                *)

UpperCase ==
    <<"A", "B", "C", "D", "E", "F", "G", "H", "I", "J", "K", "L", "M",
      "N", "O", "P", "Q", "R", "S", "T", "U", "V", "W", "X", "Y", "Z">>

LowerCase ==
    <<"a", "b", "c", "d", "e", "f", "g", "h", "i", "j", "k", "l", "m",
      "n", "o", "p", "q", "r", "s", "t", "u", "v", "w", "x", "y", "z">>

\* str.lower of one character: an upper-case letter gives its lower-case
\* letter, every other character itself
LowerChar(c) ==
    IF \E i \in 1..Len(UpperCase) : UpperCase[i] = c
    THEN LowerCase[CHOOSE i \in 1..Len(UpperCase) : UpperCase[i] = c]
    ELSE c

Lower(s) == [i \in 1..Len(s) |-> LowerChar(s[i])]

StartsWith(s, p) == Len(s) >= Len(p) /\ SubSeq(s, 1, Len(p)) = p

\* s.split(' '): the pieces between single spaces, empty pieces kept
RECURSIVE SplitFrom(_, _, _)
SplitFrom(s, i, piece) ==
    IF i > Len(s) THEN <<piece>>
    ELSE IF s[i] = " " THEN <<piece>> \o SplitFrom(s, i + 1, <<>>)
    ELSE SplitFrom(s, i + 1, Append(piece, s[i]))

Split(s) == SplitFrom(s, 1, <<>>)

\* the characters c with c.isspace(), which str.strip() removes
Whitespace ==
    { " ", "\t", "\n", "\r", "\f",
      "U+000B", "U+001C", "U+001D", "U+001E", "U+001F", "U+0085", "U+00A0",
      "U+1680", "U+2000", "U+2001", "U+2002", "U+2003", "U+2004", "U+2005",
      "U+2006", "U+2007", "U+2008", "U+2009", "U+200A", "U+2028", "U+2029",
      "U+202F", "U+205F", "U+3000" }

RECURSIVE LStrip(_)
LStrip(s) == IF s # <<>> /\ Head(s) \in Whitespace THEN LStrip(Tail(s)) ELSE s

RECURSIVE RStrip(_)
RStrip(s) ==
    IF s # <<>> /\ s[Len(s)] \in Whitespace THEN RStrip(SubSeq(s, 1, Len(s) - 1)) ELSE s

Strip(s) == RStrip(LStrip(s))

GameIdPrefix == <<"!", "g", "a", "m", "e", "i", "d", " ">>

\* message_text.lower().startswith('!gameid ')
IsGameIdCommand(text) == StartsWith(Lower(text), GameIdPrefix)

\* message_text.split(' ')[1].strip()
ParseGameId(text) == Strip(Split(text)[2])

----------------------------------------------------------------------------
(* The recipient directory (monitor.py:29-37) *)

\* the keys of self.player_phones, in dict order
Names == <<"Katrin", "Joe", "Nick", "Tess">>

NameSet == {Names[i] : i \in 1..Len(Names)}

\* The environments the monitor is started in: each gives every name a phone
\* number, an empty string, or nothing (None). In the first, two names share
\* a number.
Directories ==
    { [n \in NameSet |->
          CASE n = "Joe" -> "+1555" [] n = "Nick" -> "+1555" [] n = "Tess" -> "+1556"
            [] OTHER -> ""],
      [n \in NameSet |-> None] }

RECURSIVE LastIndexOf(_, _, _)
LastIndexOf(pp, phone, i) ==
    IF i = 0 THEN 0
    ELSE IF pp[Names[i]] = phone THEN i
    ELSE LastIndexOf(pp, phone, i - 1)

\* {phone: name for name, phone in self.player_phones.items() if phone}:
\* a later name with the same phone replaces an earlier one
PhoneToPlayer(pp) ==
    [ph \in {pp[n] : n \in {m \in NameSet : Truthy(pp[m])}} |->
        Names[LastIndexOf(pp, ph, Len(Names))]]

\* a slip: the sender is not looked up
SenderKnownAlways(ptp, from) == TRUE

\* from_number in self.phone_to_player
SenderKnown(ptp, from) == from \in DOMAIN ptp

\* self.player_phones.get(name)
PhoneOf(pp, name) == IF name \in DOMAIN pp THEN pp[name] ELSE None

----------------------------------------------------------------------------
(* Messages and send_whatsapp_message (monitor.py:91-123) *)

ResearchMsg == [kind |-> "research"]

YourTurnMsg == [kind |-> "your_turn"]

StartupMsg(gid) == [kind |-> "startup", game |-> gid]

UpdateMsg(by, old, new) == [kind |-> "updated", by |-> by, old |-> old, new |-> new]

InvalidMsg(gid) == [kind |-> "invalid", game |-> gid]

\* One call of send_whatsapp_message: nothing is posted to an empty number;
\* otherwise one POST. Its result (ok: status 200, or else another status or
\* an exception) only chooses the line that is logged.
Send(phone, message, ok) ==
    IF Falsy(phone) THEN <<>>
    ELSE <<[to |-> phone, msg |-> message]>>

\* a slip: a failed send ends the loop over the recipients
RemainingUnlessFailed(todo, ok) == IF ok THEN Tail(todo) ELSE <<>>

\* The sends still to make after one call of send_whatsapp_message: the call
\* returns normally whatever the POST gave (lines 113-123), so the caller's
\* loop goes on with the next recipient.
Remaining(todo, ok) == Tail(todo)

\* for phone in self.player_phones.values(): if phone: send(phone, message)
\* -- the calls still to make, in dict order
RECURSIVE BroadcastFrom(_, _, _)
BroadcastFrom(pp, message, i) ==
    IF i > Len(Names) THEN <<>>
    ELSE (IF Truthy(pp[Names[i]]) THEN <<[to |-> pp[Names[i]], msg |-> message]>> ELSE <<>>)
         \o BroadcastFrom(pp, message, i + 1)

\* a slip: the loop stops after its first send
BroadcastFirstOnly(pp, message) ==
    IF BroadcastFrom(pp, message, 1) = <<>> THEN <<>> ELSE <<Head(BroadcastFrom(pp, message, 1))>>

Broadcast(pp, message) == BroadcastFrom(pp, message, 1)

----------------------------------------------------------------------------
(* Snapshots: what response.json() gives, read through dict.get *)

\* self.current_state = None; also get_game_state's result on failure
NoState == [absent |-> TRUE]

\* activePlayer: missing (None), one color (a str), or a list of colors
APNone == [kind |-> "none", v |-> <<>>]

APStr(c) == [kind |-> "str", v |-> <<c>>]

APList(cs) == [kind |-> "list", v |-> cs]

\* if active_color:
APTruthy(ap) ==
    \/ ap.kind = "str" /\ ap.v # <<"">>
    \/ ap.kind = "list" /\ ap.v # <<>>

\* a roster key that the entry does not have
Missing == "<missing>"

Roster1 == << [color |-> "red", name |-> "Nick"], [color |-> "blue", name |-> "Tess"] >>

Roster2 == << [color |-> "red", name |-> "Zed"], [color |-> "blue", name |-> "Katrin"] >>

\* a roster whose entry has no 'name' key
Roster3 == << [color |-> "blue", name |-> Missing] >>

Snap(ph, ap, r) == [phase |-> ph, activePlayer |-> ap, players |-> r]

\* the JSON object {}
EmptyDict == [empty |-> TRUE]

\* The snapshots of the shape the monitor expects: research and action
\* phases, with and without an active color, under two rosters (Roster2
\* gives red a name outside the directory).
Snapshots ==
    { Snap("research", APStr("red"), Roster1),
      Snap("research", APNone, Roster2),
      Snap("action", APStr("red"), Roster1),
      Snap("action", APStr("blue"), Roster1),
      Snap("action", APNone, Roster1),
      Snap("action", APStr("red"), Roster2) }

\* The bodies off that shape: a list of active colors; no 'phase' and no
\* 'players'; a roster entry without 'name'; an active color whose player
\* has no address; the empty object; with two snapshots of the expected
\* shape for them to follow or precede.
OddSnapshots ==
    { Snap("action", APList(<<"red", "blue">>), Roster1),
      Snap(None, APStr("red"), <<>>),
      Snap("action", APStr("blue"), Roster3),
      Snap("action", APStr("blue"), Roster2),
      EmptyDict,
      Snap("research", APStr("red"), Roster1),
      Snap("action", APStr("red"), Roster1) }

\* if not game_state: None and the empty dict are falsy
StateTruthy(gs) == gs \notin {NoState, EmptyDict}

\* the answers of the game server that get_game_state takes for a failure:
\* a status other than 200 (with a body), or a failed request (exc)
Failures ==
    { [exc |-> FALSE, status |-> st,
       body |-> Snap("research", APStr("red"), Roster1)] : st \in {404, 500} }
    \cup { [exc |-> TRUE, status |-> 0, body |-> NoState] }

\* The answers of the game server to GET /api/game: 200 with one of the
\* bodies, or a failure.
Answers(bodies) ==
    { [exc |-> FALSE, status |-> 200, body |-> s] : s \in bodies } \cup Failures

Responses == Answers(Snapshots)

OddResponses == Answers(OddSnapshots)

\* an answer that makes the evaluation broadcast, and a refused request
FewResponses ==
    { [exc |-> FALSE, status |-> 200, body |-> Snap("research", APStr("red"), Roster1)],
      [exc |-> FALSE, status |-> 404, body |-> Snap("research", APStr("red"), Roster1)] }

\* a slip: the body is taken whatever the status
get_game_state_any_status(resp) == IF resp.exc THEN NoState ELSE resp.body

\* get_game_state, given the server's answer (monitor.py:130-139)
get_game_state(resp) ==
    IF resp.exc THEN NoState
    ELSE IF resp.status = 200 THEN resp.body
    ELSE NoState

\* a slip: every answer of the server validates the id
validate_game_id_any_status(resp) == ~resp.exc

\* validate_game_id, given the server's answer (monitor.py:85-89)
validate_game_id(resp) ==
    IF resp.exc THEN FALSE ELSE resp.status = 200

\* get_player_name_by_color (monitor.py:141-146): the name of the first
\* roster entry of that color, None when there is none, KeyError when an
\* entry met on the way lacks 'color', or the matching one lacks 'name'.
RECURSIVE NameFrom(_, _, _)
NameFrom(ap, players, i) ==
    IF i > Len(players) THEN [raised |-> FALSE, value |-> None]
    ELSE IF players[i].color = Missing THEN [raised |-> TRUE, value |-> None]
    ELSE IF ap = APStr(players[i].color)
         THEN (IF players[i].name = Missing
               THEN [raised |-> TRUE, value |-> None]
               ELSE [raised |-> FALSE, value |-> players[i].name])
    ELSE NameFrom(ap, players, i + 1)

get_player_name_by_color(ap, players) == NameFrom(ap, players, 1)

----------------------------------------------------------------------------
(* notify_players: the two comparisons against the Baseline *)

\* a slip: the research message is sent whatever the Baseline's phase
ResearchEdgeAlways(prev) == TRUE

\* self.current_state is None or self.current_state.get('phase') != 'research'
ResearchEdge(prev) == prev = NoState \/ prev.phase # "research"

\* a slip: a turn is new only when there is no Baseline
TurnChangedOnlyFirst(prev, active) == prev = NoState

\* a slip: every poll of an active color is taken for a new turn
TurnChangedAlways(prev, active) == TRUE

\* a slip: without a Baseline no turn is taken for new
TurnChangedNeedsBaseline(prev, active) == prev # NoState /\ prev.activePlayer # active

\* self.current_state is None or
\* self.current_state.get('activePlayer') != active_color
TurnChanged(prev, active) == prev = NoState \/ prev.activePlayer # active

\* What notify_players does with game_state once it has read the Baseline
\* (monitor.py:154-178): the sends still to make and the warnings logged.
Compared(pp, prev, gs) ==
    IF gs.phase = "research"
    THEN [todo |-> IF ResearchEdge(prev) THEN Broadcast(pp, ResearchMsg) ELSE <<>>,
          log |-> <<>>]
    ELSE LET name == get_player_name_by_color(gs.activePlayer, gs.players).value
             phone == PhoneOf(pp, name)
         IN  IF TurnChanged(prev, gs.activePlayer)
             THEN IF Truthy(phone)
                  THEN [todo |-> <<[to |-> phone, msg |-> YourTurnMsg]>>, log |-> <<>>]
                  ELSE [todo |-> <<>>, log |-> <<"no_phone_configured">>]
             ELSE [todo |-> <<>>, log |-> <<>>]

----------------------------------------------------------------------------
(* Inbound messages *)

Texts ==
    { <<"!", "G", "a", "m", "e", "I", "D", " ", "g", "\r", "\n", " ", "x">>,
      <<"!", "g", "a", "m", "e", "i", "d", " ">>,
      <<"!", "g", "a", "m", "e", "i", "d">>,
      <<"h", "i">> }

\* the texts that are commands
Commands ==
    { <<"!", "G", "a", "m", "e", "I", "D", " ", "g", "\r", "\n", " ", "x">>,
      <<"!", "g", "a", "m", "e", "i", "d", " ">> }

\* one command, with the empty id
OneCommand == { <<"!", "g", "a", "m", "e", "i", "d", " ">> }

\* the threads of the requests in flight: every specification below runs
\* both
Handlers == {"h1", "h2"}

\* the senders of inbound messages: the number two names of the directory
\* share, and a number outside it
Senders == {"+1555", "+1999"}

KnownSenders == {"+1555"}

\* GAME_ID of the environment
InitialGameId == <<"g">>

ValidationResponses ==
    { [exc |-> FALSE, status |-> 200], [exc |-> FALSE, status |-> 404],
      [exc |-> TRUE, status |-> 0] }

FewValidationResponses ==
    { [exc |-> FALSE, status |-> 200], [exc |-> FALSE, status |-> 404] }

\* The POSTs to /webhook that carry no message text for the handler: a body
\* that is not announced as JSON, a body announced as JSON that does not
\* parse, a JSON body without entry[0].changes[0].value.messages[0] (or
\* without its 'from' or its text body), and a message whose text body is no
\* str.
MalformedPayloads == {"not_json", "bad_json", "wrong_shape", "text_not_str"}

\* webhook (monitor.py:189-200) for such a POST: the answer's status and what
\* is logged. request.get_json() is called before the try: a body that does
\* not parse makes it raise BadRequest, which Flask answers with 400. The
\* exceptions of the try block are logged. A text that is no str reaches
\* handle_incoming_message, which drops an unknown number before it touches
\* the text and raises on message_text.lower() otherwise.
webhook(kind, known) ==
    CASE kind = "not_json" -> [status |-> 200, log |-> <<>>]
      [] kind = "bad_json" -> [status |-> 400, log |-> <<>>]
      [] kind = "wrong_shape" -> [status |-> 200, log |-> <<"webhook_error">>]
      [] kind = "text_not_str" ->
            [status |-> 200,
             log |-> IF known THEN <<"webhook_error">> ELSE <<"unknown_number">>]

\* a slip: an exception of the cycle ends the loop
AfterExceptionStops == "stopped"

\* run, lines 231-233: the except of the while loop logs, sleeps, and the
\* loop goes round to its next fetch
AfterException == "fetch"

\* the value of a local that is not set
Unset == "<unset>"

\* the game id of a fetch that was not made
NoGameId == <<"<unset>">>

\* the Baseline value of an evaluation that has not read it (yet)
Unread == [unread |-> TRUE]

\* no evaluation has replaced the Baseline yet
NoEval == [none |-> TRUE]

VARIABLES
    game_id,          \* self.game_id
    current_state,    \* self.current_state, the Baseline
    player_phones,    \* self.player_phones
    phone_to_player,  \* self.phone_to_player
    p_pc,             \* the poll loop's position in run()
    p_gid,            \* the game id the cycle's fetch asked for
    p_resp,           \* the server's answer to the cycle's fetch
    p_gs,             \* game_state, the result of get_game_state
    p_prev,           \* the Baseline the evaluation read for its comparison
    p_todo,           \* the sends the loop still has to make
    p_out,            \* the messages the cycle (or the startup) has posted
    p_log,            \* warnings and errors the cycle has logged
    p_fail,           \* a send of the running broadcast failed
    p_fresh,          \* history: the running evaluation began with the Baseline just reset
    h_pc,             \* each webhook thread's position in handle_incoming_message
    h_text,           \* message_text
    h_from,           \* from_number
    h_new,            \* new_game_id
    h_old,            \* old_game_id
    h_valid,          \* the answers to the validation fetches the call has made
    h_todo,           \* the sends the handler still has to make
    h_out,            \* the messages the call has posted
    h_log,            \* warnings the call has logged
    h_res,            \* how the last call ended
    h_status,         \* the status of the route's answer (0: none yet)
    armed,            \* history: the Baseline was reset and no evaluation began since
    last_eval         \* history: the last evaluation that replaced the Baseline

shared == <<game_id, current_state>>

directory == <<player_phones, phone_to_player>>

pvars == <<p_pc, p_gid, p_resp, p_gs, p_prev, p_todo, p_out, p_log, p_fail, p_fresh>>

hvars == <<h_pc, h_text, h_from, h_new, h_old, h_valid, h_todo, h_out, h_log, h_res,
           h_status>>

vars == <<shared, directory, pvars, hvars, armed, last_eval>>

NoResponse == [exc |-> FALSE, status |-> 0, body |-> NoState]

Init ==
    /\ game_id = InitialGameId
    /\ current_state = NoState
    /\ player_phones \in Directories
    /\ phone_to_player = PhoneToPlayer(player_phones)
    /\ p_pc = "start"
    /\ p_gid = NoGameId
    /\ p_resp = NoResponse
    /\ p_gs = NoState
    /\ p_prev = Unread
    /\ p_todo = <<>>
    /\ p_out = <<>>
    /\ p_log = <<>>
    /\ p_fail = FALSE
    /\ p_fresh = FALSE
    /\ h_pc = [t \in Handlers |-> "idle"]
    /\ h_text = [t \in Handlers |-> <<>>]
    /\ h_from = [t \in Handlers |-> Unset]
    /\ h_new = [t \in Handlers |-> <<>>]
    /\ h_old = [t \in Handlers |-> <<>>]
    /\ h_valid = [t \in Handlers |-> <<>>]
    /\ h_todo = [t \in Handlers |-> <<>>]
    /\ h_out = [t \in Handlers |-> <<>>]
    /\ h_log = [t \in Handlers |-> <<>>]
    /\ h_res = [t \in Handlers |-> "none"]
    /\ h_status = [t \in Handlers |-> 0]
    /\ armed = FALSE
    /\ last_eval = NoEval

----------------------------------------------------------------------------
(* The poll loop: run (monitor.py:204-233) *)

\* run, lines 216-220: the startup message is built from self.game_id
RunStart ==
    /\ p_pc = "start"
    /\ p_todo' = Broadcast(player_phones, StartupMsg(game_id))
    /\ p_pc' = IF p_todo' = <<>> THEN "fetch" ELSE "startup"
    /\ UNCHANGED <<shared, directory, p_gid, p_resp, p_gs, p_prev, p_out, p_log, p_fail,
                   p_fresh, hvars, armed, last_eval>>

\* run, lines 221-223: one send of the startup broadcast
StartupSend(ok) ==
    /\ p_pc = "startup"
    /\ p_todo # <<>>
    /\ p_out' = p_out \o Send(Head(p_todo).to, Head(p_todo).msg, ok)
    /\ p_fail' = (p_fail \/ ~ok)
    /\ p_todo' = Remaining(p_todo, ok)
    /\ p_pc' = IF p_todo' = <<>> THEN "fetch" ELSE "startup"
    /\ UNCHANGED <<shared, directory, p_gid, p_resp, p_gs, p_prev, p_log, p_fresh, hvars,
                   armed, last_eval>>

\* run, line 227: game_state = self.get_game_state(); a new cycle begins
Fetch(resp) ==
    /\ p_pc = "fetch"
    /\ p_gid' = game_id
    /\ p_resp' = resp
    /\ p_gs' = get_game_state(resp)
    /\ p_prev' = Unread
    /\ p_todo' = <<>>
    /\ p_out' = <<>>
    /\ p_log' = <<>>
    /\ p_fail' = FALSE
    /\ p_fresh' = FALSE
    /\ p_pc' = "notify"
    /\ UNCHANGED <<shared, directory, hvars, armed, last_eval>>

\* notify_players, lines 150-167: everything before the Baseline is read.
\* A falsy game_state returns at once (the loop sleeps and fetches again); a
\* KeyError of the roster lookup is caught by the loop (lines 231-233).
NotifyEnter ==
    /\ p_pc = "notify"
    /\ IF ~StateTruthy(p_gs)
       THEN /\ p_pc' = "fetch"
            /\ UNCHANGED <<p_log, p_fresh, armed>>
       ELSE /\ armed' = FALSE
            /\ IF p_gs.phase = "research"
               THEN p_pc' = "read1" /\ p_fresh' = armed /\ UNCHANGED p_log
               ELSE IF ~APTruthy(p_gs.activePlayer)
               THEN p_pc' = "write" /\ p_fresh' = armed /\ UNCHANGED p_log
               ELSE LET r == get_player_name_by_color(p_gs.activePlayer, p_gs.players)
                    IN  IF r.raised
                        THEN /\ p_pc' = AfterException
                             /\ p_log' = Append(p_log, "loop_error")
                             /\ UNCHANGED p_fresh
                        ELSE IF Falsy(r.value)
                        THEN p_pc' = "write" /\ p_fresh' = armed /\ UNCHANGED p_log
                        ELSE p_pc' = "read1" /\ p_fresh' = armed /\ UNCHANGED p_log
    /\ UNCHANGED <<shared, directory, p_gid, p_resp, p_gs, p_prev, p_todo, p_out, p_fail,
                   hvars, last_eval>>

\* the evaluation goes on with the Baseline it read
Compare(prev) ==
    LET c == Compared(player_phones, prev, p_gs)
    IN  /\ p_prev' = prev
        /\ p_todo' = c.todo
        /\ p_log' = p_log \o c.log
        /\ p_pc' = IF c.todo = <<>> THEN "write" ELSE "send"

\* lines 155 and 169: the first read, self.current_state is None
Read1 ==
    /\ p_pc = "read1"
    /\ IF current_state = NoState
       THEN Compare(NoState)
       ELSE p_pc' = "read2" /\ UNCHANGED <<p_prev, p_todo, p_log>>
    /\ UNCHANGED <<shared, directory, p_gid, p_resp, p_gs, p_out, p_fail, p_fresh, hvars,
                   armed, last_eval>>

\* lines 155 and 170: the second read, self.current_state.get(...); if the
\* Baseline was reset since the first read this is None.get, an
\* AttributeError, which the loop catches (lines 231-233)
Read2 ==
    /\ p_pc = "read2"
    /\ IF current_state = NoState
       THEN /\ p_pc' = AfterException
            /\ p_log' = Append(p_log, "loop_error")
            /\ p_fresh' = FALSE
            /\ UNCHANGED <<p_prev, p_todo>>
       ELSE Compare(current_state) /\ UNCHANGED p_fresh
    /\ UNCHANGED <<shared, directory, p_gid, p_resp, p_gs, p_out, p_fail, hvars,
                   armed, last_eval>>

\* lines 158-160 and 176: one send of the evaluation
PollSend(ok) ==
    /\ p_pc = "send"
    /\ p_todo # <<>>
    /\ p_out' = p_out \o Send(Head(p_todo).to, Head(p_todo).msg, ok)
    /\ p_fail' = (p_fail \/ ~ok)
    /\ p_todo' = Remaining(p_todo, ok)
    /\ p_pc' = IF p_todo' = <<>> THEN "write" ELSE "send"
    /\ UNCHANGED <<shared, directory, p_gid, p_resp, p_gs, p_prev, p_log, p_fresh, hvars,
                   armed, last_eval>>

\* line 181: self.current_state = game_state; then the loop sleeps
WriteBaseline ==
    /\ p_pc = "write"
    /\ current_state' = p_gs
    /\ last_eval' = [gs |-> p_gs, gid |-> p_gid, reset |-> FALSE]
    /\ p_fail' = FALSE
    /\ p_fresh' = FALSE
    /\ p_pc' = "fetch"
    /\ UNCHANGED <<game_id, directory, p_gid, p_resp, p_gs, p_prev, p_todo, p_out, p_log,
                   hvars, armed>>

----------------------------------------------------------------------------
(* The webhook threads: webhook and handle_incoming_message                *)
(* (monitor.py:44-78, 189-200). app.run() serves each request in a thread  *)
(* of its own and handle_incoming_message takes no lock, so the calls of   *)
(* several requests run side by side; t names the thread of one request.   *)

\* webhook, lines 194-197: the message of the payload is handed to
\* handle_incoming_message
Webhook(t, text, from) ==
    /\ h_pc[t] = "idle"
    /\ h_text' = [h_text EXCEPT ![t] = text]
    /\ h_from' = [h_from EXCEPT ![t] = from]
    /\ h_valid' = [h_valid EXCEPT ![t] = <<>>]
    /\ h_out' = [h_out EXCEPT ![t] = <<>>]
    /\ h_log' = [h_log EXCEPT ![t] = <<>>]
    /\ h_res' = [h_res EXCEPT ![t] = "none"]
    /\ h_status' = [h_status EXCEPT ![t] = 0]
    /\ h_pc' = [h_pc EXCEPT ![t] = "handle"]
    /\ UNCHANGED <<shared, directory, pvars, h_new, h_old, h_todo, armed, last_eval>>

\* webhook, lines 191-200, for a POST that carries no message text: the
\* route answers without a call of handle_incoming_message getting as far as
\* its command
WebhookMalformed(t, kind, from) ==
    /\ h_pc[t] = "idle"
    /\ LET r == webhook(kind, SenderKnown(phone_to_player, from))
       IN  /\ h_status' = [h_status EXCEPT ![t] = r.status]
           /\ h_log' = [h_log EXCEPT ![t] = r.log]
    /\ h_valid' = [h_valid EXCEPT ![t] = <<>>]
    /\ h_out' = [h_out EXCEPT ![t] = <<>>]
    /\ h_res' = [h_res EXCEPT ![t] = "malformed"]
    /\ UNCHANGED <<shared, directory, pvars, h_pc, h_text, h_from, h_new, h_old, h_todo,
                   armed, last_eval>>

\* lines 47-54: an unknown number is logged and dropped, a text that is no
\* '!gameid ' command is dropped, a command is parsed
Handle(t) ==
    /\ h_pc[t] = "handle"
    /\ IF ~SenderKnown(phone_to_player, h_from[t])
       THEN /\ h_log' = [h_log EXCEPT ![t] = <<"unknown_number">>]
            /\ h_res' = [h_res EXCEPT ![t] = "ignored"]
            /\ h_status' = [h_status EXCEPT ![t] = 200]
            /\ h_pc' = [h_pc EXCEPT ![t] = "idle"]
            /\ h_text' = [h_text EXCEPT ![t] = <<>>]
            /\ h_from' = [h_from EXCEPT ![t] = Unset]
            /\ UNCHANGED h_new
       ELSE IF ~IsGameIdCommand(h_text[t])
       THEN /\ h_res' = [h_res EXCEPT ![t] = "ignored"]
            /\ h_status' = [h_status EXCEPT ![t] = 200]
            /\ h_pc' = [h_pc EXCEPT ![t] = "idle"]
            /\ h_text' = [h_text EXCEPT ![t] = <<>>]
            /\ h_from' = [h_from EXCEPT ![t] = Unset]
            /\ UNCHANGED <<h_log, h_new>>
       ELSE /\ h_new' = [h_new EXCEPT ![t] = ParseGameId(h_text[t])]
            /\ h_pc' = [h_pc EXCEPT ![t] = "validate"]
            /\ h_text' = [h_text EXCEPT ![t] = <<>>]
            /\ UNCHANGED <<h_log, h_res, h_from, h_status>>
    /\ UNCHANGED <<shared, directory, pvars, h_old, h_valid, h_todo, h_out, armed,
                   last_eval>>

\* line 55: self.validate_game_id(new_game_id), one fetch
Validate(t, resp) ==
    /\ h_pc[t] = "validate"
    /\ h_valid' = [h_valid EXCEPT ![t] = Append(h_valid[t], resp)]
    /\ h_pc' = [h_pc EXCEPT ![t] = IF validate_game_id(resp) THEN "old" ELSE "reject"]
    /\ UNCHANGED <<shared, directory, pvars, h_text, h_from, h_new, h_old, h_todo, h_out,
                   h_log, h_res, h_status, armed, last_eval>>

\* line 56: old_game_id = self.game_id
ReadOld(t) ==
    /\ h_pc[t] = "old"
    /\ h_old' = [h_old EXCEPT ![t] = game_id]
    /\ h_pc' = [h_pc EXCEPT ![t] = "swap"]
    /\ UNCHANGED <<shared, directory, pvars, h_text, h_from, h_new, h_valid, h_todo, h_out,
                   h_log, h_res, h_status, armed, last_eval>>

\* lines 57-64: the watched session is replaced, the confirmation is built
Swap(t) ==
    /\ h_pc[t] = "swap"
    /\ game_id' = h_new[t]
    /\ LET todo == Broadcast(player_phones,
                             UpdateMsg(phone_to_player[h_from[t]], h_old[t], h_new[t]))
       IN  /\ h_todo' = [h_todo EXCEPT ![t] = todo]
           /\ h_pc' = [h_pc EXCEPT ![t] = IF todo = <<>> THEN "reset" ELSE "send"]
    /\ UNCHANGED <<current_state, directory, pvars, h_text, h_from, h_new, h_old, h_valid,
                   h_out, h_log, h_res, h_status, armed, last_eval>>

\* lines 66-68: one send of the confirmation broadcast
HandlerSend(t, ok) ==
    /\ h_pc[t] = "send"
    /\ h_todo[t] # <<>>
    /\ h_out' = [h_out EXCEPT ![t] = @ \o Send(Head(h_todo[t]).to, Head(h_todo[t]).msg, ok)]
    /\ LET todo == Remaining(h_todo[t], ok)
       IN  /\ h_todo' = [h_todo EXCEPT ![t] = todo]
           /\ h_pc' = [h_pc EXCEPT ![t] = IF todo = <<>> THEN "reset" ELSE "send"]
    /\ UNCHANGED <<shared, directory, pvars, h_text, h_from, h_new, h_old, h_valid, h_log,
                   h_res, h_status, armed, last_eval>>

\* lines 70-72: the Baseline is reset and the call returns
ResetBaseline(t) ==
    /\ h_pc[t] = "reset"
    /\ current_state' = NoState
    /\ armed' = TRUE
    /\ last_eval' = IF last_eval = NoEval THEN NoEval ELSE [last_eval EXCEPT !.reset = TRUE]
    /\ h_res' = [h_res EXCEPT ![t] = "changed"]
    /\ h_status' = [h_status EXCEPT ![t] = 200]
    /\ h_pc' = [h_pc EXCEPT ![t] = "idle"]
    /\ h_from' = [h_from EXCEPT ![t] = Unset]
    /\ h_new' = [h_new EXCEPT ![t] = <<>>]
    /\ h_old' = [h_old EXCEPT ![t] = <<>>]
    /\ UNCHANGED <<game_id, directory, pvars, h_text, h_valid, h_todo, h_out, h_log>>

\* lines 73-78: the rejection notice goes to the sender and the call returns
Reject(t, ok) ==
    /\ h_pc[t] = "reject"
    /\ h_out' = [h_out EXCEPT ![t] = @ \o Send(h_from[t], InvalidMsg(h_new[t]), ok)]
    /\ h_res' = [h_res EXCEPT ![t] = "rejected"]
    /\ h_status' = [h_status EXCEPT ![t] = 200]
    /\ h_pc' = [h_pc EXCEPT ![t] = "idle"]
    /\ h_from' = [h_from EXCEPT ![t] = Unset]
    /\ h_new' = [h_new EXCEPT ![t] = <<>>]
    /\ UNCHANGED <<shared, directory, pvars, h_text, h_old, h_valid, h_todo, h_log,
                   armed, last_eval>>

----------------------------------------------------------------------------
(* The system *)

\* the steps of the main thread, for the answers resps of the game server
Poll(resps) ==
    \/ RunStart
    \/ \E ok \in BOOLEAN : StartupSend(ok)
    \/ \E resp \in resps : Fetch(resp)
    \/ NotifyEnter
    \/ Read1
    \/ Read2
    \/ \E ok \in BOOLEAN : PollSend(ok)
    \/ WriteBaseline

\* the steps of the webhook threads, for the given inbound POSTs and
\* answers of the game server to the validation
Handler(texts, senders, kinds, resps) ==
    \/ \E t \in Handlers, text \in texts, from \in senders : Webhook(t, text, from)
    \/ \E t \in Handlers, kind \in kinds, from \in senders : WebhookMalformed(t, kind, from)
    \/ \E t \in Handlers : Handle(t)
    \/ \E t \in Handlers, resp \in resps : Validate(t, resp)
    \/ \E t \in Handlers : ReadOld(t)
    \/ \E t \in Handlers : Swap(t)
    \/ \E t \in Handlers, ok \in BOOLEAN : HandlerSend(t, ok)
    \/ \E t \in Handlers : ResetBaseline(t)
    \/ \E t \in Handlers, ok \in BOOLEAN : Reject(t, ok)

\* The whole system: the main thread and the threads of two requests, which
\* run side by side. The sets name the answers of the game server to the
\* poll, the inbound POSTs and the answers to the validation that a run
\* draws from; the specifications below differ in these sets only, each
\* small enough for its runs to be searched.
System(resps, texts, senders, kinds, vresps) ==
    \/ Poll(resps)
    \/ Handler(texts, senders, kinds, vresps)

\* Session changes: an answer that makes the poll broadcast and a refused
\* one, the two commands, a known and an unknown sender, every answer to
\* the validation.
Next == System(FewResponses, Commands, Senders, {"bad_json"}, ValidationResponses)

Spec == Init /\ [][Next]_vars

\* Inbound messages: every text, from a known and an unknown sender.
NextInbound == System(FewResponses, Texts, Senders, {"bad_json"}, FewValidationResponses)

SpecInbound == Init /\ [][NextInbound]_vars

\* Inbound POSTs that carry no message text: every malformed payload.
NextMalformed ==
    System(FewResponses, OneCommand, Senders, MalformedPayloads, FewValidationResponses)

SpecMalformed == Init /\ [][NextMalformed]_vars

\* Evaluations: every snapshot of the expected shape and every failure of
\* the fetch, with one command of a known sender, validated or refused.
NextPoll == System(Responses, OneCommand, KnownSenders, {"bad_json"}, FewValidationResponses)

SpecPoll == Init /\ [][NextPoll]_vars

\* Evaluations of the bodies off the expected shape.
NextOdd == System(OddResponses, OneCommand, KnownSenders, {"bad_json"}, FewValidationResponses)

SpecOdd == Init /\ [][NextOdd]_vars

----------------------------------------------------------------------------
(* Properties of one evaluation (notify_players) *)

\* the names that have an address, in the directory's order
Configured == SelectSeq(Names, LAMBDA n : player_phones[n] \notin {None, ""})

\* one message for every configured recipient, and nothing else
OnePerRecipient(message) ==
    [k \in 1..Len(Configured) |-> [to |-> player_phones[Configured[k]], msg |-> message]]

\* the roster entries of the snapshot for the color c
EntriesOf(gs, c) == {i \in 1..Len(gs.players) : gs.players[i].color = c}

\* the snapshot names one active color, and its first roster entry gives a
\* name that has an address
ResolvesToRecipient(gs) ==
    /\ gs.activePlayer.kind = "str"
    /\ EntriesOf(gs, gs.activePlayer.v[1]) # {}
    /\ LET i == CHOOSE j \in EntriesOf(gs, gs.activePlayer.v[1]) :
                    \A k \in EntriesOf(gs, gs.activePlayer.v[1]) : j <= k
       IN  /\ gs.players[i].name \in NameSet
           /\ player_phones[gs.players[i].name] \notin {None, ""}

RecipientOf(gs) ==
    LET i == CHOOSE j \in EntriesOf(gs, gs.activePlayer.v[1]) :
                 \A k \in EntriesOf(gs, gs.activePlayer.v[1]) : j <= k
    IN  player_phones[gs.players[i].name]

\* the evaluation of the fetched snapshot has made its sends and is about to
\* replace the Baseline
Evaluated == p_pc = "write"

\* C1: an evaluation of a non-research snapshot whose single active color
\* resolves to a name with an address, made against a Baseline that is absent
\* or has another activePlayer, posts exactly one message: "your turn", to
\* that address.
C1_TurnChange ==
    (Evaluated /\ p_gs.phase # "research" /\ ResolvesToRecipient(p_gs))
        => /\ p_prev # Unread
           /\ (p_prev = NoState \/ p_prev.activePlayer # p_gs.activePlayer)
                 => p_out = <<[to |-> RecipientOf(p_gs), msg |-> YourTurnMsg]>>

C1_Witness ==
    /\ Evaluated
    /\ p_gs = Snap("action", APStr("red"), Roster1)
    /\ p_prev = Snap("action", APStr("blue"), Roster1)
    /\ p_out = <<[to |-> "+1555", msg |-> YourTurnMsg]>>

\* C2: an evaluation of a research snapshot posts the research message once
\* to every configured recipient, and nothing else, when the Baseline is
\* absent or not in research; it posts nothing when the Baseline is in
\* research.
C2_ResearchEdge ==
    (Evaluated /\ p_gs.phase = "research")
        => /\ p_prev # Unread
           /\ IF p_prev = NoState \/ p_prev.phase # "research"
              THEN p_out = OnePerRecipient(ResearchMsg)
              ELSE p_out = <<>>

C2_Witness ==
    /\ Evaluated
    /\ p_gs.phase = "research"
    /\ p_prev = Snap("action", APStr("red"), Roster1)
    /\ Len(p_out) = 3
    /\ p_out[3] = [to |-> "+1556", msg |-> ResearchMsg]

\* C3: an evaluation against a Baseline with the same phase and the same
\* activePlayer posts nothing, whatever the other fields of the two
\* snapshots; nor does an evaluation that never reads the Baseline.
C3_NoChangeNoEvent ==
    /\ (p_prev \notin {Unread, NoState}
          /\ p_prev.phase = p_gs.phase /\ p_prev.activePlayer = p_gs.activePlayer)
        => (p_out = <<>> /\ p_todo = <<>>)
    /\ (Evaluated /\ p_prev = Unread) => p_out = <<>>

C3_Witness ==
    /\ Evaluated
    /\ p_gs = Snap("action", APStr("red"), Roster1)
    /\ p_prev = Snap("action", APStr("red"), Roster2)
    /\ p_out = <<>>

----------------------------------------------------------------------------
(* Properties of the poll cycle *)

\* the cycle is between its fetch and its Baseline write
InEvaluation == p_pc \in {"notify", "read1", "read2", "send", "write"}

\* the cycle fetched, for the same session, the snapshot that the last
\* completed evaluation left as the Baseline
RepeatsLast == last_eval # NoEval /\ p_gs = last_eval.gs /\ p_gid = last_eval.gid

\* C4, as claimed: a cycle that fetches the snapshot the last evaluation was
\* made of, for the same session, posts nothing.
C4_RepeatNeverNotifies ==
    (InEvaluation /\ RepeatsLast) => (p_out = <<>> /\ p_todo = <<>>)

\* C4, amended: ... and no session change reset the Baseline since that
\* evaluation.
C4_RepeatWithoutResetNeverNotifies ==
    (InEvaluation /\ RepeatsLast /\ ~last_eval.reset) => (p_out = <<>> /\ p_todo = <<>>)

C4_Witness ==
    /\ Evaluated
    /\ RepeatsLast
    /\ ~last_eval.reset
    /\ p_gs = Snap("research", APStr("red"), Roster1)
    /\ p_prev = p_gs
    /\ p_out = <<>>

\* the fetch of the cycle failed: an exception, or a status other than 200
FetchFailed == p_pc = "notify" /\ (p_resp.exc \/ p_resp.status # 200)

\* C5: a failed fetch gives an absent snapshot, and its evaluation posts
\* nothing and leaves the Baseline and the watched session as they were.
C5_FetchFailureSkipsCycle ==
    [][FetchFailed =>
         /\ p_gs = NoState
         /\ (p_pc' # p_pc) =>
               /\ p_pc' = "fetch"
               /\ p_out' = <<>> /\ p_todo' = <<>>
               /\ current_state' = current_state
               /\ game_id' = game_id]_vars

C5_Witness ==
    /\ p_pc = "fetch"
    /\ ~p_resp.exc /\ p_resp.status = 404
    /\ p_gs = NoState
    /\ current_state = Snap("action", APStr("red"), Roster1)
    /\ p_out = <<>>

----------------------------------------------------------------------------
(* Properties of the command handler *)

\* the sender's address is the address of a configured name
KnownAddress(from) == \E n \in NameSet : player_phones[n] = from /\ from \notin {None, ""}

\* the text, in lower case, begins with "!gameid" and a space
MatchesGrammar(text) ==
    /\ Len(text) >= 8
    /\ \A i \in 1..8 : LowerChar(text[i]) = GameIdPrefix[i]

Validated(resp) == ~resp.exc /\ resp.status = 200

\* the confirmation of a session change: who asked, the old id, the new id
Confirmation(by, old, new) == [kind |-> "updated", by |-> by, old |-> old, new |-> new]

\* the webhook thread t takes a step of its call
Steps(t) == h_pc'[t] # h_pc[t]

\* C6: a command of a known sender whose id validates ends with the watched
\* session set to the id, the Baseline absent, and one confirmation, naming
\* the old and the new id, posted to every configured recipient.
C6_ChangeSession ==
    [][\A t \in Handlers :
         /\ (h_pc[t] = "validate" /\ Steps(t) /\ Validated(h_valid'[t][1])) => h_pc'[t] = "old"
         /\ (h_pc[t] = "old" /\ Steps(t)) => (h_pc'[t] = "swap" /\ h_old'[t] = game_id)
         /\ (h_pc[t] = "swap" /\ Steps(t)) =>
               /\ game_id' = h_new[t]
               /\ h_out'[t] = <<>>
               /\ h_todo'[t] = OnePerRecipient(Confirmation(phone_to_player[h_from[t]],
                                                            game_id, h_new[t]))
         /\ (h_pc[t] = "reset" /\ Steps(t)) =>
               /\ h_pc'[t] = "idle" /\ h_res'[t] = "changed"
               /\ game_id' = h_new[t]
               /\ current_state' = NoState
               /\ h_out'[t] = OnePerRecipient(Confirmation(phone_to_player[h_from[t]],
                                                           h_old[t], h_new[t]))
         /\ (h_pc[t] \in {"swap", "send"} /\ Steps(t)) => h_pc'[t] \in {"send", "reset"}]_vars

\* C8: a message of an unknown sender, or a text of a known sender that is
\* no "!gameid <id>" command, is dropped: nothing is posted, no id is
\* validated, the watched session and the Baseline stay; the unknown sender
\* is logged.
C8_Ignore ==
    [][\A t \in Handlers :
         (/\ h_pc[t] = "handle" /\ Steps(t)
          /\ (~KnownAddress(h_from[t]) \/ ~MatchesGrammar(h_text[t]))) =>
            /\ h_pc'[t] = "idle" /\ h_res'[t] = "ignored"
            /\ h_out'[t] = <<>> /\ h_todo'[t] = <<>>
            /\ h_valid'[t] = <<>>
            /\ game_id' = game_id
            /\ current_state' = current_state
            /\ ~KnownAddress(h_from[t]) => h_log'[t] = <<"unknown_number">>]_vars

C8_Witness ==
    \E t \in Handlers :
        /\ h_pc[t] = "idle" /\ h_res[t] = "ignored"
        /\ h_log[t] = <<"unknown_number">>
        /\ h_out[t] = <<>> /\ h_valid[t] = <<>>
        /\ current_state # NoState

\* C9: when the validation of the id fails, one rejection notice is posted,
\* to the sender alone, and the watched session and the Baseline stay.
C9_Reject ==
    [][\A t \in Handlers :
         /\ (h_pc[t] = "validate" /\ Steps(t) /\ ~Validated(h_valid'[t][1])) =>
               (h_pc'[t] = "reject" /\ h_out'[t] = <<>> /\ UNCHANGED shared)
         /\ (h_pc[t] = "reject" /\ Steps(t)) =>
               /\ h_pc'[t] = "idle" /\ h_res'[t] = "rejected"
               /\ h_out'[t] = <<[to |-> h_from[t], msg |-> InvalidMsg(h_new[t])]>>
               /\ UNCHANGED shared]_vars

C9_Witness ==
    \E t \in Handlers :
        /\ h_pc[t] = "idle" /\ h_res[t] = "rejected"
        /\ h_valid[t] = <<[exc |-> FALSE, status |-> 404]>>
        /\ h_out[t] = <<[to |-> "+1555", msg |-> InvalidMsg(<<"g">>)]>>
        /\ game_id = <<>>
        /\ current_state # NoState

----------------------------------------------------------------------------
(* Properties of the threads together *)

\* C7: the first evaluation to begin after a session change has reset the
\* Baseline is given an absent Baseline.
C7_ResetReachesNextEvaluation ==
    [][(armed /\ p_pc = "notify" /\ p_pc' # p_pc /\ StateTruthy(p_gs))
          => current_state = NoState]_vars

\* the session id is swapped and the Baseline is not yet reset
PartlyApplied == \E t \in Handlers : h_pc[t] \in {"send", "reset"}

\* C10: the poll cycle does not fetch, nor read or write the Baseline, while
\* a session change is partly applied, and no session change takes effect
\* between a cycle's fetch and its Baseline write.
C10_Serialized ==
    [][/\ PartlyApplied => ~(p_pc \in {"fetch", "read1", "read2", "write"} /\ p_pc' # p_pc)
       /\ (InEvaluation /\ StateTruthy(p_gs)) =>
             ~(\E t \in Handlers : h_pc[t] \in {"swap", "reset"} /\ Steps(t))]_vars

----------------------------------------------------------------------------
(* The first evaluation after a session change *)

\* what an evaluation of gs against an absent Baseline posts: the research
\* message to every configured recipient, or "your turn" to the recipient
\* the single active color resolves to, or nothing
PostedFromAbsent(gs) ==
    IF gs.phase = "research" THEN OnePerRecipient(ResearchMsg)
    ELSE IF ResolvesToRecipient(gs) THEN <<[to |-> RecipientOf(gs), msg |-> YourTurnMsg]>>
    ELSE <<>>

\* C11, as claimed: the first evaluation to begin after a session change has
\* reset the Baseline posts nothing, whatever snapshot it was given.
C11_FirstPollAfterResetSilent ==
    (Evaluated /\ p_fresh) => p_out = <<>>

\* C11, amended: the first evaluation to begin after a session change has
\* reset the Baseline, when it finds the Baseline absent, posts what the
\* first evaluation after startup posts (the research message to every
\* configured recipient, or "your turn" to the resolved recipient, or
\* nothing), and then makes its snapshot the Baseline.
C11_FirstPollAfterResetAsAtStartup ==
    [][(Evaluated /\ p_fresh /\ p_prev \in {NoState, Unread}) =>
          /\ p_out = PostedFromAbsent(p_gs)
          /\ (p_pc' # p_pc) => current_state' = p_gs]_vars

C11_Witness ==
    /\ Evaluated
    /\ p_fresh
    /\ h_res["h1"] = "changed"
    /\ p_prev = NoState
    /\ p_gs = Snap("action", APStr("blue"), Roster1)
    /\ p_out = <<[to |-> "+1556", msg |-> YourTurnMsg]>>

----------------------------------------------------------------------------
(* Evaluations whose active color names no single recipient *)

\* the Baseline an evaluation is made against: the one it read, or, when it
\* reads none, the one it is about to replace
BaselineOf == IF p_prev = Unread THEN current_state ELSE p_prev

\* the evaluation is one of a non-research snapshot whose activePlayer is
\* new against the Baseline
NewActivePlayer ==
    /\ Evaluated
    /\ p_gs.phase # "research"
    /\ (BaselineOf = NoState \/ BaselineOf.activePlayer # p_gs.activePlayer)

\* the message the specification gives for several active colors
WaitingOnSeveralMsg == [kind |-> "waiting_on_several"]

\* activePlayer is a list of two or more colors
SeveralActive(gs) == gs.activePlayer.kind = "list" /\ Len(gs.activePlayer.v) > 1

\* C12: an evaluation of a non-research snapshot with several active colors
\* posts one "waiting on several players" message to every configured
\* recipient when the colors differ from the Baseline's (or there is no
\* Baseline), and nothing when they are the same.
C12_SeveralActiveBroadcast ==
    (Evaluated /\ p_gs.phase # "research" /\ SeveralActive(p_gs)) =>
        IF NewActivePlayer
        THEN p_out = OnePerRecipient(WaitingOnSeveralMsg)
        ELSE p_out = <<>>

\* the snapshot names one active color
OneActive(gs) == gs.activePlayer.kind = "str" /\ gs.activePlayer.v # <<"">>

\* C13: an evaluation that finds a new single active color which resolves to
\* no configured recipient (no roster entry of that color, or a name
\* without an address) posts nothing, logs a diagnostic, and goes on to
\* replace the Baseline.
C13_UndeliverableIsLogged ==
    (NewActivePlayer /\ OneActive(p_gs) /\ ~ResolvesToRecipient(p_gs)) =>
        (p_out = <<>> /\ p_log # <<>>)

----------------------------------------------------------------------------
(* The poll loop under fair scheduling *)

\* Inputs of the runs in which the loop's progress is checked: an answer
\* that makes the evaluation broadcast, one whose roster makes it raise, a
\* refused and a failed request; one command of a known sender.
LoopResponses ==
    { [exc |-> FALSE, status |-> 200, body |-> Snap("research", APStr("red"), Roster1)],
      [exc |-> FALSE, status |-> 200, body |-> Snap("action", APStr("blue"), Roster3)],
      [exc |-> FALSE, status |-> 404, body |-> Snap("research", APStr("red"), Roster1)],
      [exc |-> TRUE, status |-> 0, body |-> NoState] }

\* the steps of the main thread: run and what it calls
PollNext == Poll(LoopResponses)

\* the steps of the webhook threads
HandlerNext == Handler(OneCommand, KnownSenders, {"bad_json"}, FewValidationResponses)

NextLoop == PollNext \/ HandlerNext

\* The main thread is scheduled again and again, and each call it makes
\* (the GET, a POST, time.sleep(5)) returns or raises: its next step is
\* taken. Nothing is assumed of the webhook threads.
SpecFair == Init /\ [][NextLoop]_vars /\ WF_vars(PollNext)

\* the positions of run: before the startup message, in its broadcast, and
\* in the while loop
LoopPositions == {"start", "startup", "fetch", "notify", "read1", "read2", "send", "write"}

\* the running cycle has failed: its fetch, one of its sends, or its
\* evaluation (an exception logged by the loop)
CycleFailed ==
    \/ p_pc \in {"notify", "fetch"} /\ (p_resp.exc \/ p_resp.status \notin {0, 200})
    \/ p_pc \in {"send", "write"} /\ p_fail
    \/ p_pc = "fetch" /\ p_log # <<>> /\ p_log[Len(p_log)] = "loop_error"

\* C14: the loop is always at a position of run (it never ends); a fetch is
\* made only from the loop's head, with no send of the cycle before left to
\* make; a cycle that failed comes back to the loop's head, and from the
\* loop's head the next fetch is always made.
C14_LoopNeverDies ==
    /\ [](p_pc \in LoopPositions)
    /\ [][(p_pc' = "notify" /\ p_pc # "notify") => (p_pc = "fetch" /\ p_todo = <<>>)]_vars
    /\ (CycleFailed ~> (p_pc = "fetch"))
    /\ ((p_pc = "fetch") ~> (p_pc = "notify"))

C14_Witness ==
    /\ p_pc = "fetch"
    /\ p_log = <<"loop_error">>
    /\ p_gs = Snap("research", APStr("red"), Roster1)
    /\ current_state = NoState
    /\ h_res["h1"] = "changed"

----------------------------------------------------------------------------
(* The answers of the webhook route *)

\* C15: a POST that carries no message text is answered with 200, posts
\* nothing and leaves the watched session and the Baseline as they were;
\* and every call that did reach the handler is answered with 200 when it
\* ends.
C15_MalformedAnswered200 ==
    [][\A t \in Handlers :
         /\ (/\ h_pc[t] = "idle" /\ h_res'[t] = "malformed"
             /\ <<h_res[t], h_status[t], h_log[t], h_out[t], h_valid[t]>>'
                    # <<h_res[t], h_status[t], h_log[t], h_out[t], h_valid[t]>>) =>
               /\ h_status'[t] = 200
               /\ h_out'[t] = <<>>
               /\ UNCHANGED shared
         /\ (h_pc[t] # "idle" /\ h_pc'[t] = "idle") => h_status'[t] = 200]_vars

----------------------------------------------------------------------------
(* The end of an evaluation *)

\* C16: when the evaluation of a fetched snapshot (one that notify_players
\* takes for present) ends, the Baseline is that snapshot.
C16_BaselineAlwaysReplaced ==
    [][(InEvaluation /\ StateTruthy(p_gs) /\ p_pc' = "fetch") => current_state' = p_gs]_vars

\* a key that notify_players or get_player_name_by_color reads is not there
FieldMissing(gs) ==
    \/ gs.phase = None
    \/ gs.activePlayer = APNone
    \/ gs.players = <<>>
    \/ \E i \in 1..Len(gs.players) : Missing \in {gs.players[i].color, gs.players[i].name}

\* C17: the evaluation of a fetched snapshot with a missing field logs no
\* error, posts nothing on account of what is missing, and ends with the
\* snapshot made the Baseline.
C17_MissingFieldsNoError ==
    [][(InEvaluation /\ StateTruthy(p_gs) /\ FieldMissing(p_gs)) =>
          /\ p_log' = <<>> \/ p_log'[Len(p_log')] # "loop_error"
          /\ (p_gs.phase # "research") => p_out' = <<>>
          /\ (p_pc' = "fetch") => current_state' = p_gs]_vars

----------------------------------------------------------------------------
(* Sends *)

\* the main thread makes one send of a broadcast
PollSends == p_pc \in {"startup", "send"} /\ <<p_todo, p_out>>' # <<p_todo, p_out>>

\* the webhook thread t makes one send of the confirmation broadcast
HandlerSends(t) == h_pc[t] = "send" /\ <<h_todo[t], h_out[t]>>' # <<h_todo[t], h_out[t]>>

\* C18: every send of a broadcast, failed or not, posts to the next
\* recipient once and leaves the other recipients still to be posted to; a
\* broadcast in which a send failed still reaches every configured
\* recipient once; and the update after the broadcast is made: the Baseline
\* is replaced after a research broadcast and reset after a confirmation.
C18_SendFailureIsolated ==
    [][/\ PollSends =>
             /\ p_out' = Append(p_out, Head(p_todo))
             /\ p_todo' = Tail(p_todo)
             /\ p_pc' = IF p_todo' # <<>> THEN p_pc
                        ELSE IF p_pc = "startup" THEN "fetch" ELSE "write"
       /\ \A t \in Handlers : HandlerSends(t) =>
             /\ h_out'[t] = Append(h_out[t], Head(h_todo[t]))
             /\ h_todo'[t] = Tail(h_todo[t])
             /\ h_pc'[t] = IF h_todo'[t] # <<>> THEN "send" ELSE "reset"
       /\ (p_fail /\ p_pc = "fetch") =>
             p_out = OnePerRecipient([kind |-> "startup", game |-> p_out[1].msg.game])
       /\ (p_fail /\ p_pc = "write" /\ p_gs.phase = "research") =>
             /\ p_out = OnePerRecipient(ResearchMsg)
             /\ (p_pc' # p_pc) => (p_pc' = "fetch" /\ current_state' = p_gs)
       /\ \A t \in Handlers : (h_pc[t] = "reset") =>
             /\ h_out[t] = OnePerRecipient(Confirmation(phone_to_player[h_from[t]],
                                                        h_old[t], h_new[t]))
             /\ Steps(t) => current_state' = NoState]_vars

C18_Witness ==
    /\ p_pc = "write"
    /\ p_fail
    /\ p_gs.phase = "research"
    /\ p_prev = NoState
    /\ p_out = OnePerRecipient(ResearchMsg)
    /\ Len(p_out) = 3
    /\ h_pc["h1"] = "reset"
    /\ Len(h_out["h1"]) = 3
    /\ h_pc["h2"] = "send"
    /\ Len(h_out["h2"]) = 1

----------------------------------------------------------------------------
(* Color resolution without a roster *)

\* the static color-to-name table the specification has supplied at startup
StaticColorTable == [c \in {"red", "blue"} |-> IF c = "red" THEN "Nick" ELSE "Tess"]

\* C19: when the snapshot carries no roster, a new single active color is
\* resolved through the static table, and "your turn" is posted to the
\* address of the name it gives.
C19_StaticTableFallback ==
    (/\ NewActivePlayer
     /\ OneActive(p_gs)
     /\ p_gs.players = <<>>
     /\ p_gs.activePlayer.v[1] \in DOMAIN StaticColorTable
     /\ player_phones[StaticColorTable[p_gs.activePlayer.v[1]]] \notin {None, ""})
        => p_out = <<[to |-> player_phones[StaticColorTable[p_gs.activePlayer.v[1]]],
                      msg |-> YourTurnMsg]>>

----------------------------------------------------------------------------
(* Addresses *)

\* the non-empty addresses of the recipient directory
DirectoryAddresses == {player_phones[n] : n \in NameSet} \ {None, ""}

\* every message of the sequence went to an address of the directory
ToDirectory(out) == \A i \in 1..Len(out) : out[i].to \in DirectoryAddresses

\* C20: every message posted, by the poll loop or by the command handler,
\* went to a non-empty address of the recipient directory, and no step
\* changes the directory or its reverse lookup.
C20_OnlyDirectoryAddresses ==
    [][/\ ToDirectory(p_out) /\ ToDirectory(p_out')
       /\ \A t \in Handlers : ToDirectory(h_out[t]) /\ ToDirectory(h_out'[t])
       /\ player_phones' = player_phones
       /\ phone_to_player' = phone_to_player]_vars

C20_Witness ==
    /\ h_pc["h1"] = "idle" /\ h_res["h1"] = "rejected"
    /\ h_out["h1"] = <<[to |-> "+1555", msg |-> InvalidMsg(<<>>)]>>
    /\ p_pc = "send"
    /\ p_out = <<[to |-> "+1555", msg |-> ResearchMsg], [to |-> "+1555", msg |-> ResearchMsg]>>
    /\ player_phones["Katrin"] = ""

====
